---- MODULE Spec2Model ----
(***************************************************************************)
(* Model of src/updater.py: a cross-platform "check and notify" updater.   *)
(*                                                                         *)
(* Text is modelled as a sequence of lines, a line as a sequence of        *)
(* tokens (words separated by blanks; "/" is a token of its own in an apt  *)
(* listing).  A py str that is None is the record None below.              *)
(***************************************************************************)
EXTENDS Integers, Sequences, FiniteSets, TLC

VARIABLES
    platform,            \* platform.system(): "Windows" or "Linux"
    auto_mode,           \* '--auto' in sys.argv
    integrate_mode,      \* '--integrate' in sys.argv
    euid_root,           \* os.geteuid() == 0
    pc,                  \* position of the (single) thread of control
    log,                 \* entries appended to updater.log by log_message
    notifications,       \* calls of show_notification (title, msg, urgency)
    prompts,             \* prompts issued through get_user_input
    run_calls,           \* calls of run_command: (cmd, use_sudo)
    spawned,             \* argument vectors handed to subprocess.run
    stdout,              \* stdout of the last run_command
    returncode,          \* exit code of the last run_command
    update_count,        \* check_windows_updates: update_count
    updates,             \* check_windows_updates: updates
    upgradable_packages, \* check_linux_updates: upgradable_packages
    security_updates,    \* check_linux_updates: security_updates
    other_updates,       \* check_linux_updates: other_updates
    returned,            \* check_and_update_system has returned
    success,             \* its return value
    raised,              \* an Exception was raised inside main's try block
    cancelled,           \* get_user_input caught KeyboardInterrupt/EOFError
    exit_code,           \* process exit code, -1 while running
    rc_cmd,              \* run_command harness: argument cmd
    rc_sudo,             \* run_command harness: argument use_sudo
    rc_result            \* run_command harness: what the call produced

vars == << platform, auto_mode, integrate_mode, euid_root, pc, log,
           notifications, prompts, run_calls, spawned, stdout, returncode,
           update_count, updates, upgradable_packages, security_updates,
           other_updates, returned, success, raised, cancelled, exit_code,
           rc_cmd, rc_sudo, rc_result >>

----------------------------------------------------------------------------
(* Bounds *)

\* longest command output, in lines
MaxLines == 4

\* longest argument vector handed to run_command by the harness
MaxArgs == 2

----------------------------------------------------------------------------
(* Values *)

Platforms == {"Windows", "Linux"}

None == [none |-> TRUE, lines |-> << >>]

Text(ls) == [none |-> FALSE, lines |-> ls]

RECURSIVE SeqsUpTo(_, _)
SeqsUpTo(S, n) ==
    IF n = 0 THEN { << >> }
    ELSE LET shorter == SeqsUpTo(S, n - 1)
         IN  shorter \cup { Append(s, x) : s \in shorter, x \in S }

Min(a, b) == IF a < b THEN a ELSE b

Entry(m, k) == [msg |-> m, n |-> k]

Notification(t, m, u) == [title |-> t, msg |-> m, urgency |-> u]

Call(c, s) == [cmd |-> c, use_sudo |-> s]

----------------------------------------------------------------------------
(* run_command *)

\* what the operating system does with a spawn request
Outcome(f, out, c) == [fail |-> f, stdout |-> out, code |-> c]

RunRaised == [raised |-> TRUE, stdout |-> None, stderr |-> "IndexError",
              code |-> 1, spawned |-> FALSE, argv |-> << >>]

RunRejected == [raised |-> FALSE, stdout |-> None,
                stderr |-> "Package manager not available on Windows",
                code |-> 1, spawned |-> FALSE, argv |-> << >>]

\* the try block: subprocess.run(cmd, ...) and the except that returns data
Execute(cmd, outcome) ==
    IF Len(cmd) = 0 \/ outcome.fail
    THEN [raised |-> FALSE, stdout |-> None, stderr |-> "str(e)", code |-> 1,
          spawned |-> FALSE, argv |-> cmd]
    ELSE [raised |-> FALSE, stdout |-> outcome.stdout, stderr |-> "",
          code |-> outcome.code, spawned |-> TRUE, argv |-> cmd]

\* a bug this code could have: elevate whenever the caller is not root
RunCommandElevating(cmd, use_sudo, plat, isRoot, outcome) ==
    IF plat = "Windows"
    THEN IF Len(cmd) = 0 THEN RunRaised
         ELSE IF cmd[1] \in {"apt", "snap"} THEN RunRejected
         ELSE Execute(cmd, outcome)
    ELSE IF isRoot THEN Execute(cmd, outcome)
         ELSE IF Len(cmd) = 0 THEN RunRaised
         ELSE IF cmd[1] # "sudo" THEN Execute(<<"sudo">> \o cmd, outcome)
         ELSE Execute(cmd, outcome)

\* cmd[0] of an empty list raises IndexError, outside the try block
RunCommand(cmd, use_sudo, plat, isRoot, outcome) ==
    IF plat = "Windows"
    THEN IF use_sudo /\ Len(cmd) = 0 THEN RunRaised
         ELSE LET c1 == IF use_sudo /\ cmd[1] = "sudo" THEN Tail(cmd) ELSE cmd
              IN  IF Len(c1) = 0 THEN RunRaised
                  ELSE IF c1[1] \in {"apt", "snap"} THEN RunRejected
                  ELSE Execute(c1, outcome)
    ELSE IF use_sudo /\ ~isRoot
         THEN IF Len(cmd) = 0 THEN RunRaised
              ELSE IF cmd[1] # "sudo" THEN Execute(<<"sudo">> \o cmd, outcome)
              ELSE Execute(cmd, outcome)
         ELSE Execute(cmd, outcome)

PowershellQuery == <<"powershell", "-Command", "ps_script">>

AptUpdate == <<"apt", "update">>

AptList == <<"apt", "list", "--upgradable">>

----------------------------------------------------------------------------
(* Strings *)

\* the substrings of a token that the program searches for
SubstringsOf(tok) ==
    IF tok = "UPDATES_AVAILABLE:" THEN {tok, "UPDATES_AVAILABLE"} ELSE {tok}

\* needle in text
In(needle, ls) ==
    \E i \in 1..Len(ls) : \E j \in 1..Len(ls[i]) :
        needle \in SubstringsOf(ls[i][j])

\* line.startswith(prefix), the prefix being one token
StartsWith(line, prefix) == Len(line) > 0 /\ line[1] = prefix

\* line.replace(tok, "").strip()
Replace(line, tok) == SelectSeq(line, LAMBDA t : t # tok)

\* text.strip().split('\n'): blank lines at either end are dropped
RECURSIVE StripLeft(_)
StripLeft(ls) ==
    IF Len(ls) > 0 /\ ls[1] = << >> THEN StripLeft(Tail(ls)) ELSE ls

RECURSIVE StripRight(_)
StripRight(ls) ==
    IF Len(ls) > 0 /\ ls[Len(ls)] = << >>
    THEN StripRight(SubSeq(ls, 1, Len(ls) - 1)) ELSE ls

StripSplit(ls) == StripRight(StripLeft(ls))

\* line.split(sep): the pieces between the occurrences of the token sep
RECURSIVE Split(_, _)
Split(line, sep) ==
    IF \A i \in 1..Len(line) : line[i] # sep THEN << line >>
    ELSE LET k == CHOOSE i \in 1..Len(line) :
                      line[i] = sep /\ \A j \in 1..(i - 1) : line[j] # sep
         IN  << SubSeq(line, 1, k - 1) >>
             \o Split(SubSeq(line, k + 1, Len(line)), sep)

Digits == {"0", "1", "2", "3"}

\* int(s.strip()) is defined for exactly one numeric token
IsInt(toks) == Len(toks) = 1 /\ toks[1] \in Digits

ToInt(toks) ==
    CASE toks[1] = "0" -> 0 [] toks[1] = "1" -> 1
      [] toks[1] = "2" -> 2 [] OTHER -> 3

----------------------------------------------------------------------------
(* check_windows_updates: the parser *)

\* a py dict with the keys title, size, mandatory; has_* tells the key is set
EmptyDict == [has_title |-> FALSE, title |-> << >>,
              has_size |-> FALSE, size |-> << >>, mandatory |-> FALSE]

\* truth value of a dict: it has a key
Truthy(d) == d.has_title \/ d.has_size \/ d.mandatory

\* the for loop over lines[1:], then the flush of the last open record
RECURSIVE ParseLoop(_, _, _)
ParseLoop(ls, acc, current_update) ==
    IF ls = << >>
    THEN IF Truthy(current_update) THEN Append(acc, current_update) ELSE acc
    ELSE LET line == Head(ls)
         IN  IF StartsWith(line, "UPDATE:")
             THEN ParseLoop(Tail(ls),
                      IF Truthy(current_update)
                      THEN Append(acc, current_update) ELSE acc,
                      [EmptyDict EXCEPT !.has_title = TRUE,
                                        !.title = Replace(line, "UPDATE:")])
             ELSE IF StartsWith(line, "SIZE:")
             THEN ParseLoop(Tail(ls), acc,
                      [current_update EXCEPT !.has_size = TRUE,
                                             !.size = Replace(line, "SIZE:")])
             ELSE IF StartsWith(line, "MANDATORY:")
             THEN ParseLoop(Tail(ls), acc,
                      [current_update EXCEPT !.mandatory = TRUE])
             ELSE ParseLoop(Tail(ls), acc, current_update)

\* int(lines[0].split("UPDATES_AVAILABLE:")[1].strip())
CountPieces(line) == Split(line, "UPDATES_AVAILABLE:")

CountRaises(line) ==
    Len(CountPieces(line)) < 2 \/ ~IsInt(CountPieces(line)[2])

ParseCount(line) == ToInt(CountPieces(line)[2])

\* u['title'] raises KeyError for a record that was opened by SIZE: or
\* MANDATORY: before any UPDATE: line
KeyErrorIn(us, k) == \E i \in 1..Min(Len(us), k) : ~us[i].has_title

\* a bug this code could have: stdout.startswith("NO_UPDATES") instead of in
WindowsBranchStartsWith(out) ==
    IF out.none THEN "TypeError"
    ELSE IF In("UPDATES_AVAILABLE", out.lines) THEN "UPDATES_AVAILABLE"
    ELSE IF Len(out.lines) > 0 /\ StartsWith(out.lines[1], "NO_UPDATES")
    THEN "NO_UPDATES"
    ELSE "else"

\* the branch check_windows_updates takes on the text the query returned
WindowsBranch(out) ==
    IF out.none THEN "TypeError"
    ELSE IF In("UPDATES_AVAILABLE", out.lines) THEN "UPDATES_AVAILABLE"
    ELSE IF In("NO_UPDATES", out.lines) THEN "NO_UPDATES"
    ELSE "else"

----------------------------------------------------------------------------
(* check_linux_updates: the parser *)

\* line.split('/')[0]
PackageName(line) == Split(line, "/")[1]

\* the for loop over stdout.split('\n')
RECURSIVE ParsePackages(_)
ParsePackages(ls) ==
    IF ls = << >> THEN << >>
    ELSE LET line == Head(ls)
         IN  IF line # << >> /\ ~StartsWith(line, "Listing...")
             THEN << PackageName(line) >> \o ParsePackages(Tail(ls))
             ELSE ParsePackages(Tail(ls))

\* returncode == 0 and stdout
UpgradablePackages(out, code) ==
    IF code = 0 /\ ~out.none /\ out.lines # << >>
    THEN ParsePackages(out.lines) ELSE << >>

\* str.lower() of a token
Lower(tok) ==
    CASE tok = "Linux" -> "linux"
      [] tok = "KERNEL" -> "kernel"
      [] OTHER -> tok

SecurityWords == {"security", "linux", "kernel"}

\* a bug this code could have: the name is not lower-cased
IsSecurityCaseSensitive(pkg) ==
    \E word \in SecurityWords : \E i \in 1..Len(pkg) : pkg[i] = word

\* any(word in pkg.lower() for word in ['security', 'linux', 'kernel'])
IsSecurity(pkg) ==
    \E word \in SecurityWords : \E i \in 1..Len(pkg) : Lower(pkg[i]) = word

SecurityUpdates(pkgs) == SelectSeq(pkgs, IsSecurity)

\* [pkg for pkg in upgradable_packages if pkg not in security_updates]
OtherUpdates(pkgs) ==
    LET sec == SecurityUpdates(pkgs)
    IN  SelectSeq(pkgs, LAMBDA p : \A i \in 1..Len(sec) : sec[i] # p)

----------------------------------------------------------------------------
(* What the environment can answer *)

WindowsLines ==
    { <<"UPDATES_AVAILABLE:", "1">>, <<"UPDATES_AVAILABLE:", "2">>,
      <<"UPDATE:", "A">>, <<"UPDATE:", "B", "UPDATE:", "C">>,
      <<"SIZE:", "10", "MB">>, <<"MANDATORY:", "true">>,
      <<"NO_UPDATES">>, <<"ERROR:", "A">>, << >> }

LinuxLines ==
    { <<"Listing...">>, << >>,
      <<"vim", "/", "jammy">>, <<"Linux", "-", "image", "/", "jammy">>,
      <<"lib", "security", "/", "a", "/", "b">>, <<"KERNEL">>,
      <<"curl", "/", "jammy">> }

SpawnFailure == Outcome(TRUE, None, 1)

WindowsOutcomes ==
    { SpawnFailure }
    \cup { Outcome(FALSE, Text(ls), 0) : ls \in SeqsUpTo(WindowsLines, MaxLines) }

AptUpdateOutcomes ==
    { SpawnFailure } \cup { Outcome(FALSE, Text(<< >>), c) : c \in {0, 100} }

AptListOutcomes ==
    { SpawnFailure }
    \cup { Outcome(FALSE, Text(ls), c) :
             ls \in SeqsUpTo(LinuxLines, MaxLines), c \in {0, 1} }

\* what input() returns after .strip().lower()
Answers == {"y", "yes", "n", "1", "2"}

Yes == {"y", "yes"}

\* state of ~/update-apps.sh
AppsScript == {"missing", "writable", "readonly"}

----------------------------------------------------------------------------
(* Groups of variables *)

env == << platform, auto_mode, integrate_mode, euid_root >>

harness == << rc_cmd, rc_sudo, rc_result >>

cmds == << run_calls, spawned, stdout, returncode >>

win == << update_count, updates >>

lin == << upgradable_packages, security_updates, other_updates >>

ret == << returned, success >>

----------------------------------------------------------------------------
(* get_user_input *)

\* a bug this code could have: the exit is caught as an ordinary Exception
CancelAsError ==
    /\ cancelled' = TRUE
    /\ raised' = TRUE
    /\ pc' = "except"
    /\ UNCHANGED << env, harness, cmds, win, lin, ret, log, notifications,
                    prompts, exit_code >>

\* except (KeyboardInterrupt, EOFError): sys.exit(0).  SystemExit is not an
\* Exception, so main's catch-all lets it through and the process ends.
Cancel ==
    /\ cancelled' = TRUE
    /\ exit_code' = 0
    /\ pc' = "exited"
    /\ UNCHANGED << env, harness, cmds, win, lin, ret, log, notifications,
                    prompts, raised >>

----------------------------------------------------------------------------
(* main *)

Banner == << Entry("==================================================", 0),
             Entry("Starting system update check", 0),
             Entry("Mode: Check & Notify (safe mode)", 0) >>

\* main, up to the try block
MainStart ==
    /\ pc = "start"
    /\ log' = IF ~auto_mode /\ ~integrate_mode THEN log \o Banner ELSE log
    /\ pc' = IF integrate_mode THEN "integrate" ELSE "check"
    /\ UNCHANGED << env, harness, cmds, win, lin, ret, notifications, prompts,
                    raised, cancelled, exit_code >>

\* a bug this code could have: the notification is sent in every mode
MainExceptAlwaysNotify ==
    /\ pc = "except"
    /\ log' = Append(log, Entry("Unexpected error", 0))
    /\ notifications' = Append(notifications,
           Notification("Update Error", "Unexpected error", "critical"))
    /\ pc' = "finish"
    /\ UNCHANGED << env, harness, cmds, win, lin, ret, prompts, raised,
                    cancelled, exit_code >>

\* except Exception as e
MainExcept ==
    /\ pc = "except"
    /\ log' = Append(log, Entry("Unexpected error", 0))
    /\ notifications' =
           IF ~auto_mode
           THEN Append(notifications,
                    Notification("Update Error", "Unexpected error", "critical"))
           ELSE notifications
    /\ pc' = "finish"
    /\ UNCHANGED << env, harness, cmds, win, lin, ret, prompts, raised,
                    cancelled, exit_code >>

\* the closing separator, then the interpreter exits normally
MainFinish ==
    /\ pc = "finish"
    /\ log' = IF ~auto_mode /\ ~integrate_mode
              THEN Append(log, Entry("==================================================", 0))
              ELSE log
    /\ exit_code' = 0
    /\ pc' = "exited"
    /\ UNCHANGED << env, harness, cmds, win, lin, ret, notifications, prompts,
                    raised, cancelled >>

\* the checker has returned: success and not auto_mode leads to the offer
MainAfterCheck ==
    /\ pc = "post_check"
    /\ IF success /\ ~auto_mode
       THEN /\ log' = Append(log, Entry("Update check completed successfully", 0))
            /\ prompts' = Append(prompts, "Set up automatic checks?")
            /\ pc' = "prompt_main"
       ELSE /\ pc' = "finish"
            /\ UNCHANGED << log, prompts >>
    /\ UNCHANGED << env, harness, cmds, win, lin, ret, notifications, raised,
                    cancelled, exit_code >>

\* the answer to the offer; 'y' enters setup_automation up to its prompt
AnswerMain ==
    /\ pc = "prompt_main"
    /\ \/ Cancel
       \/ \E choice \in Answers :
            /\ IF choice \notin Yes
               THEN pc' = "finish" /\ UNCHANGED << log, prompts >>
               ELSE IF platform = "Windows"
               THEN /\ log' = Append(log,
                         Entry("For Windows: Use Task Scheduler to run this script daily", 0))
                    /\ pc' = "finish"
                    /\ UNCHANGED prompts
               ELSE /\ prompts' = Append(prompts, "Choose option (1/2/3)")
                    /\ pc' = "prompt_setup"
                    /\ UNCHANGED log
            /\ UNCHANGED << env, harness, cmds, win, lin, ret, notifications,
                            raised, cancelled, exit_code >>

\* setup_automation after its prompt
AnswerSetup ==
    /\ pc = "prompt_setup"
    /\ \/ Cancel
       \/ \E choice \in Answers :
            /\ IF choice = "1"
               THEN /\ spawned' = Append(spawned, <<"sh", "-c", "crontab daily --auto">>)
                    /\ log' = Append(log, Entry("Scheduled daily update checks at 2 PM", 0))
                    /\ notifications' = Append(notifications,
                           Notification("Automation Set",
                               "Daily update checks scheduled at 2 PM", "normal"))
               ELSE IF choice = "2"
               THEN /\ spawned' = Append(spawned, <<"sh", "-c", "crontab weekly --auto">>)
                    /\ log' = Append(log,
                           Entry("Scheduled weekly update checks on Sundays at 10 AM", 0))
                    /\ notifications' = Append(notifications,
                           Notification("Automation Set",
                               "Weekly update checks scheduled", "normal"))
               ELSE UNCHANGED << spawned, log, notifications >>
            /\ pc' = "finish"
            /\ UNCHANGED << env, harness, run_calls, stdout, returncode, win,
                            lin, ret, prompts, raised, cancelled, exit_code >>

\* integrate_with_existing_system up to its prompt
IntegrateWithExistingSystem ==
    /\ pc = "integrate"
    /\ IF platform = "Windows"
       THEN pc' = "finish" /\ UNCHANGED prompts
       ELSE /\ prompts' = Append(prompts, "Integrate with app-updater.sh?")
            /\ pc' = "prompt_integrate"
    /\ UNCHANGED << env, harness, cmds, win, lin, ret, log, notifications,
                    raised, cancelled, exit_code >>

\* integrate_with_existing_system after its prompt; open(..., 'a') of a file
\* that exists but cannot be written raises PermissionError
AnswerIntegrate ==
    /\ pc = "prompt_integrate"
    /\ \/ Cancel
       \/ \E choice \in Answers, apps_script \in AppsScript :
            /\ IF choice \notin Yes
               THEN /\ pc' = "finish"
                    /\ UNCHANGED << log, notifications, raised >>
               ELSE IF apps_script = "writable"
               THEN /\ log' = Append(log, Entry("Integrated with update-apps.sh", 0))
                    /\ notifications' = Append(notifications,
                           Notification("Integration Complete",
                               "Update checks added to daily app updates", "normal"))
                    /\ pc' = "finish"
                    /\ UNCHANGED raised
               ELSE IF apps_script = "readonly"
               THEN /\ raised' = TRUE
                    /\ pc' = "except"
                    /\ UNCHANGED << log, notifications >>
               ELSE /\ log' = Append(log, Entry("update-apps.sh not found", 0))
                    /\ pc' = "finish"
                    /\ UNCHANGED << notifications, raised >>
            /\ UNCHANGED << env, harness, cmds, win, lin, ret, prompts,
                            cancelled, exit_code >>

----------------------------------------------------------------------------
(* check_and_update_system on Windows *)

Checking(title) == Notification(title, "Checking for available updates...", "low")

\* check_windows_updates from its first line to the prompt, a return or a raise
CheckWindowsUpdates ==
    /\ pc = "check"
    /\ platform = "Windows"
    /\ \E outcome \in WindowsOutcomes :
         LET r      == RunCommand(PowershellQuery, FALSE, platform, euid_root, outcome)
             branch == WindowsBranch(r.stdout)
             lines  == StripSplit(r.stdout.lines)
             parsed == ParseLoop(Tail(lines), << >>, EmptyDict)
             log1   == Append(log, Entry("Checking for Windows updates...", 0))
             ntf1   == Append(notifications, Checking("Windows Update"))
         IN  /\ run_calls' = Append(run_calls, Call(PowershellQuery, FALSE))
             /\ spawned' = IF r.spawned THEN Append(spawned, r.argv) ELSE spawned
             /\ stdout' = r.stdout
             /\ returncode' = r.code
             /\ CASE branch = "TypeError" ->
                      /\ raised' = TRUE
                      /\ pc' = "except"
                      /\ log' = log1
                      /\ notifications' = ntf1
                      /\ UNCHANGED << win, ret, prompts >>
                  [] branch = "UPDATES_AVAILABLE" /\ CountRaises(lines[1]) ->
                      /\ raised' = TRUE
                      /\ pc' = "except"
                      /\ log' = log1
                      /\ notifications' = ntf1
                      /\ UNCHANGED << win, ret, prompts >>
                  [] branch = "UPDATES_AVAILABLE" /\ ~CountRaises(lines[1]) ->
                      /\ update_count' = ParseCount(lines[1])
                      /\ updates' = parsed
                      /\ log' = Append(log1, Entry("Found Windows updates available",
                                                   ParseCount(lines[1])))
                      /\ IF KeyErrorIn(parsed, 3)
                         THEN /\ raised' = TRUE
                              /\ pc' = "except"
                              /\ notifications' = ntf1
                              /\ UNCHANGED prompts
                         ELSE /\ notifications' = Append(ntf1,
                                     Notification("Updates Available",
                                         "updates available!", "critical"))
                              /\ IF KeyErrorIn(parsed, 5)
                                 THEN /\ raised' = TRUE
                                      /\ pc' = "except"
                                      /\ UNCHANGED prompts
                                 ELSE /\ prompts' = Append(prompts,
                                             "Open Windows Update settings?")
                                      /\ pc' = "prompt_windows"
                                      /\ UNCHANGED raised
                      /\ UNCHANGED ret
                  [] branch = "NO_UPDATES" ->
                      /\ log' = Append(log1, Entry("Windows is up to date", 0))
                      /\ notifications' = Append(ntf1,
                             Notification("System Updated",
                                 "Your system is already up to date!", "low"))
                      /\ returned' = TRUE
                      /\ success' = TRUE
                      /\ pc' = "post_check"
                      /\ UNCHANGED << win, prompts, raised >>
                  [] OTHER ->
                      /\ log' = Append(log1,
                             Entry("Could not check Windows updates automatically", 0))
                      /\ notifications' = Append(ntf1,
                             Notification("Update Check",
                                 "Could not check updates automatically. Check manually in Settings.",
                                 "normal"))
                      /\ returned' = TRUE
                      /\ success' = FALSE
                      /\ pc' = "post_check"
                      /\ UNCHANGED << win, prompts, raised >>
    /\ UNCHANGED << env, harness, lin, cancelled, exit_code >>

\* check_windows_updates after its prompt
AnswerWindows ==
    /\ pc = "prompt_windows"
    /\ \/ Cancel
       \/ \E choice \in Answers :
            /\ IF choice \in Yes
               THEN /\ spawned' = Append(spawned, <<"start", "ms-settings:windowsupdate">>)
                    /\ log' = Append(log, Entry("Opened Windows Update settings", 0))
               ELSE UNCHANGED << spawned, log >>
            /\ returned' = TRUE
            /\ success' = TRUE
            /\ pc' = "post_check"
            /\ UNCHANGED << env, harness, run_calls, stdout, returncode, win,
                            lin, notifications, prompts, raised, cancelled,
                            exit_code >>

----------------------------------------------------------------------------
(* check_and_update_system on Linux *)

\* check_linux_updates up to the result of 'apt update'
CheckLinuxAptUpdate ==
    /\ pc = "check"
    /\ platform = "Linux"
    /\ \E outcome \in AptUpdateOutcomes :
         LET r    == RunCommand(AptUpdate, FALSE, platform, euid_root, outcome)
             log1 == Append(log, Entry("Checking for Ubuntu updates...", 0))
             ntf1 == Append(notifications, Checking("System Update"))
         IN  /\ run_calls' = Append(run_calls, Call(AptUpdate, FALSE))
             /\ spawned' = IF r.spawned THEN Append(spawned, r.argv) ELSE spawned
             /\ stdout' = r.stdout
             /\ returncode' = r.code
             /\ IF r.code # 0
                THEN /\ log' = Append(log1,
                            Entry("Failed to update package lists - need sudo access", 0))
                     /\ notifications' = Append(ntf1,
                            Notification("Update Error",
                                "Failed to update package lists - need sudo access",
                                "critical"))
                     /\ returned' = TRUE
                     /\ success' = FALSE
                     /\ pc' = "post_check"
                ELSE /\ log' = log1
                     /\ notifications' = ntf1
                     /\ pc' = "linux_list"
                     /\ UNCHANGED ret
    /\ UNCHANGED << env, harness, win, lin, prompts, raised, cancelled, exit_code >>

\* check_linux_updates from 'apt list --upgradable' to the prompt or a return
CheckLinuxAptList ==
    /\ pc = "linux_list"
    /\ \E outcome \in AptListOutcomes :
         LET r    == RunCommand(AptList, FALSE, platform, euid_root, outcome)
             pkgs == UpgradablePackages(r.stdout, r.code)
         IN  /\ run_calls' = Append(run_calls, Call(AptList, FALSE))
             /\ spawned' = IF r.spawned THEN Append(spawned, r.argv) ELSE spawned
             /\ stdout' = r.stdout
             /\ returncode' = r.code
             /\ upgradable_packages' = pkgs
             /\ IF pkgs = << >>
                THEN /\ log' = Append(log, Entry("System is already up to date", 0))
                     /\ notifications' = Append(notifications,
                            Notification("System Updated",
                                "System is already up to date", "low"))
                     /\ returned' = TRUE
                     /\ success' = TRUE
                     /\ pc' = "post_check"
                     /\ UNCHANGED << security_updates, other_updates, prompts >>
                ELSE /\ log' = Append(log, Entry("Found packages to update", Len(pkgs)))
                     /\ security_updates' = SecurityUpdates(pkgs)
                     /\ other_updates' = OtherUpdates(pkgs)
                     /\ notifications' = Append(notifications,
                            Notification("Updates Available",
                                "updates available! Run 'sudo apt upgrade' to install.",
                                "critical"))
                     /\ prompts' = Append(prompts, "Show the exact command to run?")
                     /\ pc' = "prompt_linux"
                     /\ UNCHANGED ret
    /\ UNCHANGED << env, harness, win, raised, cancelled, exit_code >>

\* check_linux_updates after its prompt: the commands are printed, not run
AnswerLinux ==
    /\ pc = "prompt_linux"
    /\ \/ Cancel
       \/ \E choice \in Answers :
            /\ returned' = TRUE
            /\ success' = TRUE
            /\ pc' = "post_check"
            /\ UNCHANGED << env, harness, cmds, win, lin, log, notifications,
                            prompts, raised, cancelled, exit_code >>

----------------------------------------------------------------------------
(* The program *)

Init ==
    /\ platform \in Platforms
    /\ auto_mode \in BOOLEAN
    /\ integrate_mode \in BOOLEAN
    /\ euid_root \in BOOLEAN
    /\ pc = "start"
    /\ log = << >>
    /\ notifications = << >>
    /\ prompts = << >>
    /\ run_calls = << >>
    /\ spawned = << >>
    /\ stdout = None
    /\ returncode = 0
    /\ update_count = 0
    /\ updates = << >>
    /\ upgradable_packages = << >>
    /\ security_updates = << >>
    /\ other_updates = << >>
    /\ returned = FALSE
    /\ success = FALSE
    /\ raised = FALSE
    /\ cancelled = FALSE
    /\ exit_code = -1
    /\ rc_cmd = << >>
    /\ rc_sudo = FALSE
    /\ rc_result = RunRejected

Next ==
    \/ MainStart
    \/ IntegrateWithExistingSystem
    \/ AnswerIntegrate
    \/ CheckWindowsUpdates
    \/ AnswerWindows
    \/ CheckLinuxAptUpdate
    \/ CheckLinuxAptList
    \/ AnswerLinux
    \/ MainAfterCheck
    \/ AnswerMain
    \/ AnswerSetup
    \/ MainExcept
    \/ MainFinish

Spec == Init /\ [][Next]_vars

----------------------------------------------------------------------------
(* run_command called on its own, with any arguments *)

Programs == {"sudo", "apt", "snap", "powershell", "ls"}

RunOutcomes ==
    { SpawnFailure } \cup { Outcome(FALSE, Text(<< >>), c) : c \in {0, 1} }

InitRun ==
    /\ platform \in Platforms
    /\ euid_root \in BOOLEAN
    /\ rc_cmd \in SeqsUpTo(Programs, MaxArgs)
    /\ rc_sudo \in BOOLEAN
    /\ rc_result = RunRejected
    /\ pc = "rc_call"
    /\ auto_mode = FALSE
    /\ integrate_mode = FALSE
    /\ log = << >>
    /\ notifications = << >>
    /\ prompts = << >>
    /\ run_calls = << >>
    /\ spawned = << >>
    /\ stdout = None
    /\ returncode = 0
    /\ update_count = 0
    /\ updates = << >>
    /\ upgradable_packages = << >>
    /\ security_updates = << >>
    /\ other_updates = << >>
    /\ returned = FALSE
    /\ success = FALSE
    /\ raised = FALSE
    /\ cancelled = FALSE
    /\ exit_code = -1

\* one call run_command(rc_cmd, rc_sudo): it returns a triple or it raises
RunCommandCall ==
    /\ pc = "rc_call"
    /\ \E outcome \in RunOutcomes :
         LET r == RunCommand(rc_cmd, rc_sudo, platform, euid_root, outcome)
         IN  /\ rc_result' = r
             /\ run_calls' = Append(run_calls, Call(rc_cmd, rc_sudo))
             /\ spawned' = IF r.spawned THEN Append(spawned, r.argv) ELSE spawned
             /\ pc' = IF r.raised THEN "rc_raised" ELSE "rc_returned"
             /\ stdout' = IF r.raised THEN stdout ELSE r.stdout
             /\ returncode' = IF r.raised THEN returncode ELSE r.code
    /\ UNCHANGED << env, rc_cmd, rc_sudo, win, lin, ret, log, notifications,
                    prompts, raised, cancelled, exit_code >>

NextRun == RunCommandCall

SpecRun == InitRun /\ [][NextRun]_vars

----------------------------------------------------------------------------
(* Properties *)

Range(q) == { q[i] : i \in 1..Len(q) }

Count(q, x) == Cardinality({ i \in 1..Len(q) : q[i] = x })

Messages(q) == { q[i].msg : i \in 1..Len(q) }

Urgencies(q) == { q[i].urgency : i \in 1..Len(q) }

\* the Windows query has been made and it produced text
WindowsQueried ==
    platform = "Windows" /\ Len(run_calls) = 1 /\ ~stdout.none

\* 'apt list --upgradable' has been run by check_linux_updates
LinuxListed == platform = "Linux" /\ Len(run_calls) = 2

\* C1: started with --auto, the run issues neither the follow-up prompt of a
\* checker nor the "Set up automatic checks?" offer.
C1_NoPromptInAutoMode ==
    auto_mode =>
        Range(prompts) \cap { "Open Windows Update settings?",
                              "Show the exact command to run?",
                              "Set up automatic checks?" } = {}

\* C2: when 'apt update' succeeded and 'apt list --upgradable' exits with 1,
\* check_linux_updates returns False after a critical notification and never
\* reports the system as up to date.
C2_ListFailureIsCheckFailed ==
    (LinuxListed /\ returncode = 1 /\ ~stdout.none) =>
        /\ pc \notin {"prompt_linux"}
        /\ returned /\ ~success
        /\ notifications[Len(notifications)].urgency = "critical"
        /\ "System is already up to date" \notin Messages(log)

\* the outcome UpToDate of check_windows_updates
WindowsUpToDate ==
    /\ returned /\ success /\ ~raised
    /\ updates = << >> /\ update_count = 0
    /\ Len(log) >= 2 /\ log[Len(log)].msg # "Unexpected error"
    /\ "Windows is up to date" \in Messages(log)
    /\ Len(notifications) >= 2
    /\ notifications[2].title = "System Updated"
    /\ notifications[2].urgency = "low"
    /\ "Open Windows Update settings?" \notin Range(prompts)

\* C3 as stated: every query output containing NO_UPDATES ends in UpToDate
C3_NoUpdatesIsUpToDate ==
    (WindowsQueried /\ In("NO_UPDATES", stdout.lines)) => WindowsUpToDate

\* C3: every Windows query output that contains NO_UPDATES and does not
\* contain UPDATES_AVAILABLE ends in UpToDate: no record, the log line
\* "Windows is up to date", a notification of urgency low, True returned and
\* no prompt of the checker.
C3_NoUpdatesWithoutAvailableIsUpToDate ==
    (WindowsQueried /\ In("NO_UPDATES", stdout.lines)
                    /\ ~In("UPDATES_AVAILABLE", stdout.lines))
        => WindowsUpToDate

C3_Witness ==
    /\ WindowsQueried
    /\ Len(stdout.lines) = 3
    /\ stdout.lines[1] = <<"ERROR:", "A">>
    /\ stdout.lines[3] = <<"NO_UPDATES">>
    /\ ~In("UPDATES_AVAILABLE", stdout.lines)
    /\ pc = "post_check"

\* a well-formed block: the count line, then UPDATE: lines, each followed by
\* SIZE: and MANDATORY: lines of its own, N UPDATE: lines in all
IsUpdateLine(line) == Len(line) > 1 /\ line[1] = "UPDATE:"

UpdateLines(ls) == { i \in 2..Len(ls) : IsUpdateLine(ls[i]) }

WellFormed(ls) ==
    /\ Len(ls) >= 1
    /\ Len(ls[1]) = 2 /\ ls[1][1] = "UPDATES_AVAILABLE:" /\ ls[1][2] \in Digits
    /\ \A i \in 2..Len(ls) :
          \/ IsUpdateLine(ls[i])
          \/ i > 2 /\ ls[i] \in { <<"SIZE:", "10", "MB">>, <<"MANDATORY:", "true">> }
    /\ Cardinality(UpdateLines(ls)) = ToInt(<< ls[1][2] >>)

\* the line of the k-th UPDATE: sentinel, and the line before which its
\* record ends
KthUpdate(ls, k) ==
    CHOOSE i \in UpdateLines(ls) :
        Cardinality({ j \in UpdateLines(ls) : j <= i }) = k

EndOfKth(ls, k) ==
    IF k = Cardinality(UpdateLines(ls)) THEN Len(ls) + 1 ELSE KthUpdate(ls, k + 1)

\* C4: from a well-formed block the parser builds exactly N records in source
\* order; record k has the title of the k-th UPDATE: line (the text after
\* the sentinel) and a size / mandatory field exactly when a SIZE: /
\* MANDATORY: line lies between that line and the next UPDATE: line or the
\* end of input; the reported count is N.
C4_WellFormedBlockParsed ==
    (WindowsQueried /\ WellFormed(stdout.lines)) =>
        LET ls == stdout.lines
            N  == Cardinality(UpdateLines(ls))
        IN  /\ ~raised
            /\ update_count = N
            /\ Len(updates) = N
            /\ \A k \in 1..N :
                 LET i == KthUpdate(ls, k)
                     e == EndOfKth(ls, k)
                 IN  /\ updates[k].has_title
                     /\ updates[k].title = SubSeq(ls[i], 2, Len(ls[i]))
                     /\ updates[k].has_size <=>
                            \E j \in (i + 1)..(e - 1) : ls[j][1] = "SIZE:"
                     /\ updates[k].mandatory <=>
                            \E j \in (i + 1)..(e - 1) : ls[j][1] = "MANDATORY:"

\* the lines of a listing that name a package, and the text before the
\* first "/" of a line
PackageLines(ls) ==
    { i \in 1..Len(ls) : Len(ls[i]) > 0 /\ ls[i][1] # "Listing..." }

BeforeSlash(line) ==
    LET slashes == { j \in 1..Len(line) : line[j] = "/" }
        first   == IF slashes = {} THEN Len(line) + 1
                   ELSE CHOOSE j \in slashes : \A k \in slashes : j <= k
    IN  [ j \in 1..(first - 1) |-> line[j] ]

\* spellings of the three words that occur in package names
SecuritySpellings == {"security", "linux", "kernel", "Linux", "KERNEL"}

NamesSecurity(pkg) == Range(pkg) \cap SecuritySpellings # {}

\* C5: a listing returned with exit code 0 yields one package per non-empty
\* line that does not start with 'Listing', named by the text before the
\* first "/", in line order; a package whose name contains "security",
\* "linux" or "kernel" in any case is in the security list and not in the
\* other list, every other package is in the other list; the lists are
\* disjoint and their sizes add up to the number of packages reported.
C5_PackagesParsedAndClassified ==
    (LinuxListed /\ returncode = 0 /\ ~stdout.none) =>
        LET ls == stdout.lines
            K  == PackageLines(ls)
        IN  /\ Len(upgradable_packages) = Cardinality(K)
            /\ \A i \in K :
                 upgradable_packages[Cardinality({ j \in K : j <= i })]
                     = BeforeSlash(ls[i])
            /\ \A p \in Range(upgradable_packages) :
                 IF NamesSecurity(p)
                 THEN p \in Range(security_updates) /\ p \notin Range(other_updates)
                 ELSE p \in Range(other_updates) /\ p \notin Range(security_updates)
            /\ Range(security_updates) \cap Range(other_updates) = {}
            /\ Len(security_updates) + Len(other_updates) = Len(upgradable_packages)
            /\ K # {} => Entry("Found packages to update", Cardinality(K)) \in Range(log)

C5_Witness ==
    /\ LinuxListed /\ returncode = 0
    /\ Len(upgradable_packages) = 3
    /\ <<"Linux", "-", "image">> \in Range(security_updates)
    /\ Len(security_updates) = 2
    /\ Len(other_updates) = 1
    /\ Len(stdout.lines) = 4

\* C6: once get_user_input has caught the operator's interrupt the process
\* has ended with exit code 0, and nothing is logged or notified after it
\* (no 'Unexpected error' entry, no closing separator).
C6_CancelEndsRunSilently ==
    /\ [](cancelled => (pc = "exited" /\ exit_code = 0 /\ ~raised))
    /\ [][cancelled' => (log' = log /\ notifications' = notifications)]_vars

C6_Witness ==
    /\ cancelled
    /\ pc = "exited"
    /\ Len(prompts) = 3
    /\ prompts[3] = "Choose option (1/2/3)"

\* C8: a checker that returned False has logged the failure, dispatched a
\* notification of urgency critical and run its failed query once.
C8_CheckFailedIsCritical ==
    (returned /\ ~success) =>
        /\ Messages(log) \cap
              { "Could not check Windows updates automatically",
                "Failed to update package lists - need sudo access" } # {}
        /\ "critical" \in Urgencies(notifications)
        /\ Len(run_calls) = 1

UnexpectedNotification ==
    Notification("Update Error", "Unexpected error", "critical")

\* C9: an Exception raised inside main's try block reaches the catch-all and
\* nothing else: main appends one 'Unexpected error' entry, dispatches one
\* critical notification exactly when the run is not in --auto mode, and the
\* process then ends with exit code 0.
C9_CatchAllLogsAndExitsNormally ==
    raised =>
        /\ ~cancelled
        /\ pc \in {"except", "finish", "exited"}
        /\ Count(log, Entry("Unexpected error", 0)) = IF pc = "except" THEN 0 ELSE 1
        /\ Count(notifications, UnexpectedNotification)
               = IF pc = "except" \/ auto_mode THEN 0 ELSE 1
        /\ pc = "exited" => exit_code = 0
        /\ pc # "exited" => exit_code = -1

C9_Witness ==
    /\ raised
    /\ pc = "exited"
    /\ platform = "Windows"
    /\ stdout.none
    /\ auto_mode

PackageManagers == {"apt", "apt-get", "snap", "dpkg", "sudo"}

\* C10: the only package-manager commands a run executes are 'apt update'
\* and then, only if it exited with 0, 'apt list --upgradable', each at most
\* once; run_command is never asked to elevate and no command starts with
\* sudo; nothing is upgraded, installed or cleaned up.
C10_NotifyOnly ==
    /\ [](/\ \A i \in 1..Len(run_calls) : ~run_calls[i].use_sudo
          /\ \A i \in 1..Len(spawned) :
                spawned[i][1] \in PackageManagers => spawned[i] \in {AptUpdate, AptList}
          /\ Count(spawned, AptUpdate) <= 1
          /\ Count(spawned, AptList) <= 1
          /\ \A i \in 1..Len(spawned) :
                spawned[i] = AptList => (i = 2 /\ spawned[1] = AptUpdate))
    /\ [][(Len(spawned') > Len(spawned) /\ spawned'[Len(spawned')] = AptList)
             => (returncode = 0 /\ spawned = << AptUpdate >>)]_vars

C10_Witness ==
    /\ spawned = << AptUpdate, AptList, <<"sh", "-c", "crontab daily --auto">> >>
    /\ prompts[1] = "Show the exact command to run?"
    /\ pc = "exited"

\* C7: run_command returns a triple for every argument vector and never
\* raises; a failure to execute is the data (None, message, 1); on Windows a
\* command whose program is apt or snap is rejected without a subprocess.
C7_RunCommandNeverRaises ==
    pc # "rc_call" =>
        /\ ~rc_result.raised
        /\ pc = "rc_returned"
        /\ ~rc_result.spawned => (rc_result.stdout.none /\ rc_result.code = 1)
        /\ (platform = "Windows" /\ rc_cmd # << >> /\ rc_cmd[1] \in {"apt", "snap"})
              => (rc_result = RunRejected /\ spawned = << >>)

====
